---- MODULE Spec2Model ----
(***************************************************************************)
(* Failure-artifact correlation and report synthesis of the UI test        *)
(* harness: conftest.py (pytest hooks) and report_generator.py.            *)
(*                                                                         *)
(* A string of the program is modelled as a sequence of tokens, the        *)
(* separators "::", "/" and "\" being tokens of their own, so that the     *)
(* derivation of a file name from a node id is computed, not assumed.      *)
(***************************************************************************)
EXTENDS Integers, Sequences, FiniteSets, TLC

\* ---------------------------------------------------------------- bounds
MaxRuns == 2
MaxTests == 2

\* ------------------------------------------------------- test identities
\* tests/test_login.py::test_bad_password
N_login == <<"tests", "/", "test_login.py", "::", "test_bad_password">>
\* tests/test_signup.py::test_bad_password (same test name, other module)
N_signup == <<"tests", "/", "test_signup.py", "::", "test_bad_password">>
\* tests/test_login.py::test_Bad_Password (differs by letter case only)
N_case == <<"tests", "/", "test_login.py", "::", "test_Bad_Password">>

NodeIds == {N_login, N_signup, N_case}

\* Position of the last "::" token of a node id (0 when there is none).
RECURSIVE LastSep(_, _)
LastSep(s, i) ==
    IF i = 0 THEN 0
    ELSE IF s[i] = "::" THEN i
    ELSE LastSep(s, i - 1)

\* item.name: the last component of the node id (the test function's name).
ItemName(nodeid) ==
    SubSeq(nodeid, LastSep(nodeid, Len(nodeid)) + 1, Len(nodeid))

\* `sanitized = item.name`
Sanitized(nodeid) == ItemName(nodeid)

\* os.path.relpath(screenshots_dir / f"{sanitized}.png", os.getcwd())
RelPngPath(nodeid) == <<"screenshots", "/">> \o Sanitized(nodeid) \o <<".png">>

\* ------------------------------------------------------------ outcomes
SetupOutcomes == {"passed", "failed", "skipped"}
CallOutcomes == {"passed", "failed", "skipped"}
TeardownOutcomes == {"passed", "failed"}

\* What driver_obj.save_screenshot(path) can do: write the file and return,
\* return without having written it (its result is not looked at), or raise.
CaptureResults == {"saved", "notsaved", "raises"}

\* How a capture goes: screenshots_dir.mkdir(parents=True, exist_ok=True)
\* raises ("nodir": it stands before the try block, and can fail only when
\* the directory is not there yet), or it returns and save_screenshot does
\* one of the above.
CaptureSteps == CaptureResults \cup {"nodir"}

\* The crash message the runner reports for a failed call phase.
CrashMessage == "AssertionError: expected redirect"

\* A "screenshot" user property a test recorded by itself.
OwnPng == <<"screenshots", "/", "own", ".png">>

\* `rep.when == "call" and rep.failed`
MutTriggerAnyPhase(when, outcome) == outcome = "failed"
MutTriggerAnyCall(when, outcome) == when = "call" /\ outcome # "passed"
Trigger(when, outcome) == when = "call" /\ outcome = "failed"


\* --------------------------------------------------------- dictionaries
\* A dict is the set of its entries [k |-> key, v |-> value].
Keys(d) == {e.k : e \in d}
Lookup(d, key) == (CHOOSE e \in d : e.k = key).v
\* d[key] = value
Put(d, key, value) == {e \in d : e.k # key} \cup {[k |-> key, v |-> value]}

\* ----------------------------------------------------------------- state
VARIABLES
    pc,                 \* where the process is: "idle" (no pytest process),
                        \* "running", "finalize", "sessionfinish", or
                        \* "internalerror" (the hook raised into the runner)
    runNo,              \* number of pytest processes started so far
    items,              \* the node ids collected by this run, in order
    jsonPlugin,         \* this run was started with the JSON report enabled
    idx,                \* index in items of the test being run
    when,               \* phase whose report is made next
    cur,                \* the reports made so far for the test being run
    results,            \* the finished tests of this run, in order
    FAILED_SCREENSHOTS, \* nodeid -> relative png path
    attempts,           \* save_screenshot calls of this run, per node id
    screenshots_dir,    \* ./screenshots exists
    pngs,               \* png path -> node id of the test it shows
    report_json,        \* the file report.json
    TEST_REPORT_md,     \* the file TEST_REPORT.md
    TEST_REPORT_pdf,    \* the file TEST_REPORT.pdf
    TEST_REPORT_ERROR,  \* the file TEST_REPORT_ERROR.txt
    diag,               \* what the last run of report_generator printed
    raised,             \* the last run of report_generator ended in an exception
    persisted,          \* this run has written its report.json
    synth               \* how report_generator was last started, and on what

vars == <<pc, runNo, items, jsonPlugin, idx, when, cur, results,
          FAILED_SCREENSHOTS, attempts, screenshots_dir, pngs,
          report_json, TEST_REPORT_md, TEST_REPORT_pdf, TEST_REPORT_ERROR,
          diag, raised, persisted, synth>>

runner == <<items, jsonPlugin, idx, when, cur, results>>
outputs == <<TEST_REPORT_md, TEST_REPORT_pdf, TEST_REPORT_ERROR, diag, raised>>

NoFile == [kind |-> "absent"]
NoReports == [setup |-> "none", call |-> "none", teardown |-> "none",
              drv |-> FALSE, props |-> FALSE, cap |-> "none"]
NoSynth == [by |-> "none", fresh |-> FALSE, doc |-> NoFile]

\* The tests in the order the runner collects them.
CollectionOrder == <<N_login, N_signup, N_case>>

\* The elements of CollectionOrder at the positions in chosen, in order.
RECURSIVE Selected(_, _)
Selected(chosen, i) ==
    IF i > Len(CollectionOrder) THEN <<>>
    ELSE (IF i \in chosen THEN <<CollectionOrder[i]>> ELSE <<>>)
         \o Selected(chosen, i + 1)

\* What a run can collect: between 1 and MaxTests of the tests.
Collections ==
    {Selected(chosen, 1) :
        chosen \in {c \in SUBSET DOMAIN CollectionOrder :
                        Cardinality(c) >= 1 /\ Cardinality(c) <= MaxTests}}

\* `FAILED_SCREENSHOTS = {}`, executed when conftest.py is imported.
MutIndexKept(old) == old
EmptyIndex(old) == {}

Init ==
    /\ pc = "idle"
    /\ runNo = 0
    /\ items = <<>>
    /\ jsonPlugin = FALSE
    /\ idx = 1
    /\ when = "setup"
    /\ cur = NoReports
    /\ results = <<>>
    /\ FAILED_SCREENSHOTS = {}
    /\ attempts = [n \in NodeIds |-> 0]
    /\ screenshots_dir = FALSE
    /\ pngs = {}
    /\ report_json = NoFile
    /\ TEST_REPORT_md = NoFile
    /\ TEST_REPORT_pdf = NoFile
    /\ TEST_REPORT_ERROR = NoFile
    /\ diag = "none"
    /\ raised = FALSE
    /\ persisted = FALSE
    /\ synth = NoSynth

\* A pytest process starts: conftest.py is imported and the tests collected.
StartRun(collected, plugin) ==
    /\ pc = "idle"
    /\ runNo < MaxRuns
    /\ pc' = "running"
    /\ runNo' = runNo + 1
    /\ items' = collected
    /\ jsonPlugin' = plugin
    /\ idx' = 1
    /\ when' = "setup"
    /\ cur' = NoReports
    /\ results' = <<>>
    /\ FAILED_SCREENSHOTS' = EmptyIndex(FAILED_SCREENSHOTS)
    /\ attempts' = [n \in NodeIds |-> 0]
    /\ persisted' = FALSE
    /\ UNCHANGED <<screenshots_dir, pngs, report_json, outputs, synth>>

\* ---------------------------------------------------- Execution Observer
\* The hook goes on to capture: the trigger holds and one of item.funcargs
\* is a WebDriver.
Captures(rep_when, rep_outcome, drv) == Trigger(rep_when, rep_outcome) /\ drv

\* FAILED_SCREENSHOTS after the hook: the entry is made when save_screenshot
\* returns, whatever it returns.
MutRecordOnRaise(index, nodeid, rep_when, rep_outcome, drv, cap) ==
    IF Captures(rep_when, rep_outcome, drv)
    THEN Put(index, nodeid, RelPngPath(nodeid))
    ELSE index
ObserverIndex(index, nodeid, rep_when, rep_outcome, drv, cap) ==
    IF Captures(rep_when, rep_outcome, drv) /\ cap # "raises"
    THEN Put(index, nodeid, RelPngPath(nodeid))
    ELSE index

\* The png files after the hook.
ObserverPngs(files, nodeid, rep_when, rep_outcome, drv, cap) ==
    IF Captures(rep_when, rep_outcome, drv) /\ cap = "saved"
    THEN Put(files, RelPngPath(nodeid), nodeid)
    ELSE files

\* What the runner does after the report of a phase: the call phase runs
\* only when setup passed, teardown always runs.
NextWhen(rep_when, rep_outcome) ==
    IF rep_when = "setup" /\ rep_outcome = "passed" THEN "call"
    ELSE IF rep_when = "teardown" THEN "setup"
    ELSE "teardown"

PhaseOutcomes(rep_when) ==
    IF rep_when = "setup" THEN SetupOutcomes
    ELSE IF rep_when = "call" THEN CallOutcomes
    ELSE TeardownOutcomes

\* What is known of the running test after the report of a phase; cap is
\* what save_screenshot did when the hook called it.
Reported(c, rep_when, rep_outcome, drv, props, cap) ==
    LET d == [c EXCEPT !.cap = IF Captures(rep_when, rep_outcome, drv) THEN cap ELSE @]
    IN IF rep_when = "setup" THEN [d EXCEPT !.setup = rep_outcome, !.drv = drv]
       ELSE IF rep_when = "call" THEN [d EXCEPT !.call = rep_outcome, !.props = props]
       ELSE [d EXCEPT !.teardown = rep_outcome]

\* The runner reports one phase of the current test and the hook
\* pytest_runtest_makereport runs on that report.
pytest_runtest_makereport(rep_outcome, drv, props, cap) ==
    /\ pc = "running"
    /\ idx <= Len(items)
    /\ rep_outcome \in PhaseOutcomes(when)
    /\ (when # "setup" => drv = cur.drv)
    /\ (when # "call" => props = cur.props)
    /\ (~Captures(when, rep_outcome, drv) => cap = "saved")
    /\ (cap = "nodir" => ~screenshots_dir)
    /\ LET nodeid == items[idx]
           capt == Captures(when, rep_outcome, drv)
           done == Reported(cur, when, rep_outcome, drv, props, cap)
       IN IF cap = "nodir"
          THEN /\ pc' = "internalerror"
               /\ UNCHANGED <<attempts, screenshots_dir, pngs, FAILED_SCREENSHOTS,
                              when, cur, results, idx>>
          ELSE /\ attempts' = [attempts EXCEPT ![nodeid] = @ + (IF capt THEN 1 ELSE 0)]
               /\ screenshots_dir' = (screenshots_dir \/ capt)
               /\ pngs' = ObserverPngs(pngs, nodeid, when, rep_outcome, drv, cap)
               /\ FAILED_SCREENSHOTS' =
                      ObserverIndex(FAILED_SCREENSHOTS, nodeid, when, rep_outcome, drv, cap)
               /\ when' = NextWhen(when, rep_outcome)
               /\ IF when = "teardown"
                  THEN /\ results' = Append(results, [nodeid |-> nodeid] @@ done)
                       /\ cur' = NoReports
                       /\ idx' = idx + 1
                       /\ pc' = IF idx = Len(items) THEN "finalize" ELSE "running"
                  ELSE /\ cur' = done
                       /\ UNCHANGED <<results, idx, pc>>
    /\ UNCHANGED <<runNo, items, jsonPlugin, report_json, outputs, persisted, synth>>


\* ------------------------------------------------- run-result document
EmptyObject == [x \in {} |-> 0]

\* user_properties: a JSON list of [name, value] pairs.
Pair(name, value) == [name |-> name, value |-> value]
List(pairs) == [null |-> FALSE, items |-> pairs]
Null == [null |-> TRUE, items |-> <<>>]

\* The outcome the JSON report gives a test: the status of the last phase
\* report that is not a plain pass (a failed setup or teardown is "error").
RecordOutcome(r) ==
    IF r.teardown = "failed" \/ r.setup = "failed" THEN "error"
    ELSE IF r.setup = "skipped" THEN "skipped"
    ELSE r.call

\* The record of one finished test, as the JSON report plugin builds it.
TestRecord(r) ==
    [nodeid |-> r.nodeid, outcome |-> RecordOutcome(r)]
    @@ (IF r.call = "none" THEN EmptyObject
        ELSE [call |-> [outcome |-> r.call]
                       @@ (IF r.call = "failed"
                           THEN [crash |-> [message |-> CrashMessage]]
                           ELSE EmptyObject)])
    @@ (IF r.props
        THEN [user_properties |-> List(<<Pair("screenshot", OwnPng)>>)]
        ELSE EmptyObject)

CountOutcome(tests, o) == Cardinality({i \in DOMAIN tests : tests[i].outcome = o})

\* The document the plugin hands to pytest_json_modifyreport.
BuildJson(res) ==
    LET tests == [i \in DOMAIN res |-> TestRecord(res[i])]
        seen == {tests[i].outcome : i \in DOMAIN tests}
    IN [tests |-> tests,
        summary |-> [total |-> Len(tests), collected |-> Len(tests)]
                    @@ [o \in seen |-> CountOutcome(tests, o)]]

\* ----------------------------------------------------- Result Serializer
\* The body of the loop of pytest_json_modifyreport for one test_dict.
MutInjectAll(test_dict, index) ==
    [user_properties |->
        List(Append(IF "user_properties" \notin DOMAIN test_dict
                       \/ test_dict.user_properties.null
                    THEN <<>>
                    ELSE test_dict.user_properties.items,
                    Pair("screenshot", RelPngPath(test_dict.nodeid))))]
    @@ test_dict
MutInjectReplace(test_dict, index) ==
    IF "nodeid" \in DOMAIN test_dict /\ test_dict.nodeid \in Keys(index)
    THEN [user_properties |->
             List(<<Pair("screenshot", Lookup(index, test_dict.nodeid))>>)]
         @@ test_dict
    ELSE test_dict
Inject(test_dict, index) ==
    IF "nodeid" \in DOMAIN test_dict /\ test_dict.nodeid \in Keys(index)
    THEN [user_properties |->
             List(Append(IF "user_properties" \notin DOMAIN test_dict
                            \/ test_dict.user_properties.null
                         THEN <<>>
                         ELSE test_dict.user_properties.items,
                         Pair("screenshot", Lookup(index, test_dict.nodeid))))]
         @@ test_dict
    ELSE test_dict

pytest_json_modifyreport(json_report, index) ==
    IF "tests" \in DOMAIN json_report
    THEN [json_report EXCEPT
            !.tests = [i \in DOMAIN json_report.tests |->
                          Inject(json_report.tests[i], index)]]
    ELSE json_report

JsonFile(data) == [kind |-> "json", data |-> data]

\* The session-finish step of the JSON report plugin, when the run has the
\* report enabled: build the document, let pytest_json_modifyreport change
\* it, write report.json.
JsonReportFinish ==
    /\ pc = "finalize"
    /\ jsonPlugin
    /\ report_json' = JsonFile(pytest_json_modifyreport(BuildJson(results),
                                                        FAILED_SCREENSHOTS))
    /\ persisted' = TRUE
    /\ pc' = "sessionfinish"
    /\ UNCHANGED <<runNo, runner, FAILED_SCREENSHOTS, attempts, screenshots_dir,
                   pngs, outputs, synth>>

\* A run without the JSON report: the hook is never called and nothing is
\* written.
NoJsonReport ==
    /\ pc = "finalize"
    /\ ~jsonPlugin
    /\ pc' = "sessionfinish"
    /\ UNCHANGED <<runNo, runner, FAILED_SCREENSHOTS, attempts, screenshots_dir,
                   pngs, report_json, outputs, persisted, synth>>


\* ---------------------------------------------------- Report Synthesizer
\* dict.get(key, default)
Get(d, key, default) == IF key \in DOMAIN d THEN d[key] ELSE default

\* A selection that takes every record that did not pass.
MutIsNotPassed(t) == "outcome" \in DOMAIN t /\ t.outcome # "passed"

\* `t.get("outcome") == "failed"`
IsFailed(t) == "outcome" \in DOMAIN t /\ t.outcome = "failed"

FailedTests(data) == SelectSeq(Get(data, "tests", <<>>), IsFailed)

\* t.get("call", {}).get("crash", {}).get("message", "<no message>")
Message(t) ==
    Get(Get(Get(t, "call", EmptyObject), "crash", EmptyObject),
        "message", "<no message>")

\* summary.get("total", summary.get("collected", 0)), and the two others
Total(data) ==
    LET summary == Get(data, "summary", EmptyObject)
    IN Get(summary, "total", Get(summary, "collected", 0))
Passed(data) == Get(Get(data, "summary", EmptyObject), "passed", 0)
Failed(data) == Get(Get(data, "summary", EmptyObject), "failed", 0)

\* One line of the text report, or one paragraph: its text, and the number
\* formatted at its end when there is one.
Text(tokens) == [text |-> tokens]
TextNum(tokens, n) == [text |-> tokens, num |-> n]

\* md_lines.append(f"- ({nodeid_md}): {msg}"), the node id between
\* backquotes (BQ stands for the backquote character);
\* t["nodeid"] is read without a default.
BQ == "(backquote)"
MdBullet(t) == Text(<<"- ", BQ>> \o t.nodeid \o <<BQ, ": ", Message(t)>>)

\* md_lines
MdLines(data) ==
    LET failed == FailedTests(data)
    IN << Text(<<"# Test Report Summary">>),
          TextNum(<<"- **Total tests:** ">>, Total(data)),
          TextNum(<<"- **Passed:** ">>, Passed(data)),
          TextNum(<<"- **Failed:** ">>, Failed(data)),
          Text(<<>>),
          Text(<<"## Failed Tests Details">>) >>
       \o [i \in DOMAIN failed |-> MdBullet(failed[i])]

\* t["nodeid"] raises KeyError for a failed record without that key.
TextRaises(data) ==
    \E i \in DOMAIN FailedTests(data) : "nodeid" \notin DOMAIN FailedTests(data)[i]

\* The value of the first pair named "screenshot" (<<>>: screenshot_path
\* stays None).
RECURSIVE FirstScreenshot(_)
FirstScreenshot(pairs) ==
    IF pairs = <<>> THEN <<>>
    ELSE IF Head(pairs).name = "screenshot" THEN Head(pairs).value
    ELSE FirstScreenshot(Tail(pairs))

ScreenshotPath(t) == FirstScreenshot(Get(t, "user_properties", List(<<>>)).items)

\* Iterating over user_properties raises TypeError when it is null.
StoryRaises(data) ==
    \E i \in DOMAIN FailedTests(data) :
        Get(FailedTests(data)[i], "user_properties", List(<<>>)).null

Paragraph(tokens) == [el |-> "Paragraph"] @@ Text(tokens)
ParagraphNum(tokens, n) == [el |-> "Paragraph"] @@ TextNum(tokens, n)
Spacer(h) == [el |-> "Spacer", h |-> h]
Image(path, files) == [el |-> "Image", path |-> path, shows |-> Lookup(files, path)]

\* nodeid.replace("/", " / ")
SafeNode(nodeid) == [i \in DOMAIN nodeid |-> IF nodeid[i] = "/" THEN " / " ELSE nodeid[i]]

\* Step 8c without the is_file() test: an image element for whatever path
\* the record names.
MutEmbedUnchecked(t, files, bad) ==
    IF ScreenshotPath(t) # <<>>
    THEN <<[el |-> "Image", path |-> ScreenshotPath(t), shows |-> <<>>], Spacer(12)>>
    ELSE <<Paragraph(<<"[No screenshot captured]">>), Spacer(12)>>

\* Step 8c: the image of a failed test, or the line that stands for it.
\* bad: the png files that Image() cannot embed.
ScreenshotBlock(t, files, bad) ==
    LET screenshot_path == ScreenshotPath(t)
    IN IF screenshot_path # <<>>
       THEN IF screenshot_path \in Keys(files)
            THEN IF screenshot_path \in bad
                 THEN <<Paragraph(<<"[Unable to insert screenshot: ", "img_err", "]">>),
                        Spacer(12)>>
                 ELSE <<Image(screenshot_path, files), Spacer(12)>>
            ELSE <<Paragraph(<<"[No screenshot file found]">>), Spacer(12)>>
       ELSE <<Paragraph(<<"[No screenshot captured]">>), Spacer(12)>>

\* Steps 8a-8c with the error of Image() swallowed around the whole block:
\* nothing is left of a test whose image cannot be embedded.
MutBlockLostOnError(t, files, bad) ==
    IF ScreenshotPath(t) \in Keys(files) \cap bad
    THEN <<>>
    ELSE << Paragraph(<<"<b>">> \o SafeNode(t.nodeid) \o <<"</b>:">>), Spacer(4),
            Paragraph(<<Message(t)>>), Spacer(8) >>
         \o ScreenshotBlock(t, files, bad)

\* Steps 8a-8c for one failed test.
TestBlock(t, files, bad) ==
    << Paragraph(<<"<b>">> \o SafeNode(t.nodeid) \o <<"</b>:">>), Spacer(4),
       Paragraph(<<Message(t)>>), Spacer(8) >>
    \o ScreenshotBlock(t, files, bad)

RECURSIVE TestBlocks(_, _, _)
TestBlocks(failed, files, bad) ==
    IF failed = <<>> THEN <<>>
    ELSE TestBlock(Head(failed), files, bad) \o TestBlocks(Tail(failed), files, bad)

\* A story that stops after the first failed test.
MutStoryFirstOnly(data, files, env) ==
    << Paragraph(<<"Test Report Summary">>), Spacer(12),
       ParagraphNum(<<"<b>Total tests:</b> ">>, Total(data)),
       ParagraphNum(<<"<b>Passed:</b> ">>, Passed(data)),
       ParagraphNum(<<"<b>Failed:</b> ">>, Failed(data)),
       Spacer(12),
       Paragraph(<<"Failed Tests Details">>), Spacer(6) >>
    \o (IF FailedTests(data) = <<>> THEN <<>>
        ELSE TestBlock(Head(FailedTests(data)), files, env.bad))

\* Steps 4-8: the story handed to doc.build.
Story(data, files, env) ==
    (IF env.logo = "ok"
     THEN <<[el |-> "Image", path |-> <<"assets", "/", "logo.png">>], Spacer(12)>>
     ELSE <<>>)
    \o << Paragraph(<<"Test Report Summary">>), Spacer(12),
          ParagraphNum(<<"<b>Total tests:</b> ">>, Total(data)),
          ParagraphNum(<<"<b>Passed:</b> ">>, Passed(data)),
          ParagraphNum(<<"<b>Failed:</b> ">>, Failed(data)),
          Spacer(12),
          Paragraph(<<"Failed Tests Details">>), Spacer(6) >>
    \o TestBlocks(FailedTests(data), files, env.bad)

\* What the surroundings decide in one run of report_generator: whether
\* assets/logo.png exists and embeds, which png files cannot be embedded,
\* and whether doc.build raises.
Envs(files) ==
    [logo : {"absent", "ok", "raises"},
     bad : SUBSET Keys(files),
     build : {"ok", "raises"}]

Out(md, pdf, err, d, r) == [md |-> md, pdf |-> pdf, err |-> err, diag |-> d, raised |-> r]

\* main() without the return after a failed json.loads: it goes on with an
\* empty document.
MutMainGoesOn(report, md, pdf, err, files, env) ==
    IF report.kind = "absent"
    THEN Out(md, pdf, err, "report.json not found, skipping PDF generation", FALSE)
    ELSE Out([kind |-> "text", lines |-> MdLines(EmptyObject)],
             [kind |-> "pdf", story |-> Story(EmptyObject, files, env)],
             err, "TEST_REPORT.pdf generated", FALSE)

\* main() opening TEST_REPORT.md for appending: the lines of this run come
\* after those an earlier run left.
MutMainAppends(report, md, pdf, err, files, env) ==
    IF report.kind # "json" \/ TextRaises(report.data) \/ StoryRaises(report.data)
    THEN Out(md, pdf, err, "Traceback", report.kind = "json")
    ELSE Out([kind |-> "text",
              lines |-> (IF md.kind = "text" THEN md.lines ELSE <<>>)
                        \o MdLines(report.data)],
             [kind |-> "pdf", story |-> Story(report.data, files, env)],
             err, "TEST_REPORT.pdf generated", FALSE)

\* report_generator.main(): the files and messages it leaves, from the
\* files it finds.
main(report, md, pdf, err, files, env) ==
    IF report.kind = "absent"
    THEN Out(md, pdf, err, "report.json not found, skipping PDF generation", FALSE)
    ELSE IF report.kind # "json"
    THEN Out(md, pdf, err, "ERROR reading report.json", FALSE)
    ELSE IF TextRaises(report.data)
    THEN Out(md, pdf, err, "Traceback", TRUE)
    ELSE LET text == [kind |-> "text", lines |-> MdLines(report.data)]
         IN IF StoryRaises(report.data)
            THEN Out(text, pdf, err, "Traceback", TRUE)
            ELSE IF env.build = "raises"
            THEN Out(text, pdf,
                     [kind |-> "text", lines |-> <<Text(<<"PDF generation failed:">>),
                                                   Text(<<"e">>)>>],
                     "ERROR generating TEST_REPORT.pdf", FALSE)
            ELSE Out(text,
                     [kind |-> "pdf", story |-> Story(report.data, files, env)],
                     err, "TEST_REPORT.pdf generated", FALSE)

Leaves(out) ==
    /\ TEST_REPORT_md' = out.md
    /\ TEST_REPORT_pdf' = out.pdf
    /\ TEST_REPORT_ERROR' = out.err
    /\ diag' = out.diag
    /\ raised' = out.raised

\* pytest_sessionfinish: start report_generator.py when report.json exists.
pytest_sessionfinish(env) ==
    /\ pc = "sessionfinish"
    /\ IF report_json.kind # "absent"
       THEN /\ Leaves(main(report_json, TEST_REPORT_md, TEST_REPORT_pdf,
                           TEST_REPORT_ERROR, pngs, env))
            /\ synth' = [by |-> "sessionfinish", fresh |-> persisted,
                         doc |-> report_json]
       ELSE /\ diag' = "report.json not found; skipping report generation."
            /\ synth' = [by |-> "skipped", fresh |-> persisted,
                         doc |-> report_json]
            /\ UNCHANGED <<TEST_REPORT_md, TEST_REPORT_pdf, TEST_REPORT_ERROR, raised>>
    /\ pc' = "idle"
    /\ UNCHANGED <<runNo, runner, FAILED_SCREENSHOTS, attempts, screenshots_dir,
                   pngs, report_json, persisted>>

\* report_generator.py run by hand, outside any pytest process.
report_generator(env) ==
    /\ pc = "idle"
    /\ Leaves(main(report_json, TEST_REPORT_md, TEST_REPORT_pdf,
                   TEST_REPORT_ERROR, pngs, env))
    /\ synth' = [by |-> "standalone", fresh |-> persisted,
                         doc |-> report_json]
    /\ UNCHANGED <<pc, runNo, runner, FAILED_SCREENSHOTS, attempts, screenshots_dir,
                   pngs, report_json, persisted>>

\* ------------------------------------------------------ the surroundings
\* Documents that report_generator can be pointed at, other than those the
\* runs of this model write.
NoNodeid == [tests |-> <<[outcome |-> "failed"]>>]
NoCall == [summary |-> [collected |-> 1],
           tests |-> <<[nodeid |-> N_login, outcome |-> "failed"]>>]
NoMessage == [summary |-> [total |-> 1, failed |-> 1],
              tests |-> <<[nodeid |-> N_login, outcome |-> "failed",
                           call |-> [crash |-> EmptyObject]]>>]
NoTests == [summary |-> [total |-> 0]]
NullProperties == [tests |-> <<[nodeid |-> N_case, outcome |-> "failed",
                                user_properties |-> Null]>>]

ExternalFiles ==
    {NoFile, [kind |-> "garbage"]}
    \cup {JsonFile(d) : d \in {NoNodeid, NoCall, NoMessage, NoTests, NullProperties,
                               EmptyObject}}

\* Between two runs report.json is removed, damaged or replaced.
EditReport(file) ==
    /\ pc = "idle"
    /\ file # report_json
    /\ report_json' = file
    /\ UNCHANGED <<pc, runNo, runner, FAILED_SCREENSHOTS, attempts, screenshots_dir,
                   pngs, outputs, persisted, synth>>

\* Between two runs a screenshot is deleted.
DeletePng(path) ==
    /\ pc = "idle"
    /\ path \in Keys(pngs)
    /\ pngs' = {e \in pngs : e.k # path}
    /\ UNCHANGED <<pc, runNo, runner, FAILED_SCREENSHOTS, attempts, screenshots_dir,
                   report_json, outputs, persisted, synth>>

\* The reports of one phase of the running test, with the hook on each.
RunPhase ==
    \E o \in SetupOutcomes \cup CallOutcomes \cup TeardownOutcomes,
       drv \in BOOLEAN, props \in BOOLEAN, cap \in CaptureSteps :
        pytest_runtest_makereport(o, drv, props, cap)

\* One pytest process, from its start to the end of pytest_sessionfinish.
Next ==
    \/ \E collected \in Collections, plugin \in BOOLEAN :
          runNo = 0 /\ StartRun(collected, plugin)
    \/ RunPhase
    \/ JsonReportFinish
    \/ NoJsonReport
    \/ \E env \in Envs(pngs) : pytest_sessionfinish(env)

Spec == Init /\ [][Next]_vars

\* Consecutive pytest processes in one working directory, each running the
\* one test N_login, with a logo-less report_generator whose doc.build and
\* Image() succeed.
Benign == [logo |-> "absent", bad |-> {}, build |-> "ok"]

NextRuns ==
    \/ \E plugin \in BOOLEAN : StartRun(<<N_login>>, plugin)
    \/ RunPhase
    \/ JsonReportFinish
    \/ NoJsonReport
    \/ pytest_sessionfinish(Benign)

SpecRuns == Init /\ [][NextRuns]_vars

\* report_generator on any report.json: the end of a session that collected
\* no test, in a directory that holds some report.json and screenshots, and
\* what is done in that directory afterwards.
StoredResults ==
    << [nodeid |-> N_login, setup |-> "passed", call |-> "failed",
        teardown |-> "passed", drv |-> TRUE, props |-> FALSE, cap |-> "saved"],
       [nodeid |-> N_case, setup |-> "passed", call |-> "failed",
        teardown |-> "passed", drv |-> TRUE, props |-> FALSE, cap |-> "saved"] >>
StoredIndex == {[k |-> N_login, v |-> RelPngPath(N_login)],
                [k |-> N_case, v |-> RelPngPath(N_case)]}
StoredPngs == {[k |-> RelPngPath(N_login), v |-> N_login],
               [k |-> RelPngPath(N_case), v |-> N_case]}
StoredFile == JsonFile(pytest_json_modifyreport(BuildJson(StoredResults), StoredIndex))

InitReport ==
    /\ pc = "sessionfinish"
    /\ runNo = 1
    /\ items = <<>>
    /\ jsonPlugin = FALSE
    /\ idx = 1
    /\ when = "setup"
    /\ cur = NoReports
    /\ results = <<>>
    /\ FAILED_SCREENSHOTS = {}
    /\ attempts = [n \in NodeIds |-> 0]
    /\ screenshots_dir = TRUE
    /\ pngs = StoredPngs
    /\ report_json \in ExternalFiles \cup {StoredFile}
    /\ TEST_REPORT_md = NoFile
    /\ TEST_REPORT_pdf = NoFile
    /\ TEST_REPORT_ERROR = NoFile
    /\ diag = "none"
    /\ raised = FALSE
    /\ persisted = FALSE
    /\ synth = NoSynth

NextReport ==
    \/ \E env \in Envs(pngs) : pytest_sessionfinish(env)
    \/ \E env \in Envs(pngs) : report_generator(env)
    \/ \E file \in ExternalFiles \cup {StoredFile} : EditReport(file)
    \/ \E path \in Keys(pngs) : DeletePng(path)

SpecReport == InitReport /\ [][NextReport]_vars


\* ================================================================ claims
\* The phase reports of this run: the finished tests and the running one.
AllReports ==
    results \o (IF pc = "running" /\ idx <= Len(items)
                THEN <<[nodeid |-> items[idx]] @@ cur>>
                ELSE <<>>)

\* C1: a test whose call phase did not fail (it passed, was skipped, or
\* failed in setup or teardown only) has had no save_screenshot call and has
\* no entry in FAILED_SCREENSHOTS, with or without a WebDriver among its
\* fixtures.
C1_NoCaptureWithoutCallFailure ==
    \A i \in DOMAIN AllReports :
        AllReports[i].call # "failed"
        => /\ attempts[AllReports[i].nodeid] = 0
           /\ AllReports[i].nodeid \notin Keys(FAILED_SCREENSHOTS)

\* C1: a run has finished a test with a WebDriver whose setup failed and
\* whose teardown failed, and another with a WebDriver whose call phase was
\* skipped.
C1_Witness ==
    \E i, j \in DOMAIN results :
        /\ results[i].drv /\ results[i].setup = "failed"
        /\ results[i].teardown = "failed"
        /\ results[j].drv /\ results[j].call = "skipped"

\* C2: once the call phase of a test with a WebDriver has been reported
\* failed, save_screenshot has been called exactly once for it, during its
\* teardown report and ever after in the run, and FAILED_SCREENSHOTS has at
\* most one entry for its node id.
C2_ExactlyOneAttempt ==
    \A i \in DOMAIN AllReports :
        (AllReports[i].call = "failed" /\ AllReports[i].drv)
        => /\ attempts[AllReports[i].nodeid] = 1
           /\ Cardinality({e \in FAILED_SCREENSHOTS : e.k = AllReports[i].nodeid}) <= 1

\* C2: a test with a WebDriver failed in its call phase and then in its
\* teardown, and the run is over.
C2_Witness ==
    /\ pc = "idle"
    /\ \E i \in DOMAIN results :
          /\ results[i].drv /\ results[i].call = "failed"
          /\ results[i].teardown = "failed"

\* C3: two distinct node ids never get the same screenshot path, and the
\* png at the path recorded for a test shows that test.
C3_PathsInjective ==
    /\ \A e1, e2 \in FAILED_SCREENSHOTS : e1.k # e2.k => e1.v # e2.v
    /\ \A e \in FAILED_SCREENSHOTS :
          \A f \in pngs : f.k = e.v => f.v = e.k

\* The sanitized identity of the claim: the whole node id with its
\* separators replaced; the rule read literally ("::" becomes "_") and as
\* its example has it ("::" becomes "__").
SanitizedByRule(nodeid) ==
    [i \in DOMAIN nodeid |->
        IF nodeid[i] \in {"::", "/", "\\"} THEN "_" ELSE nodeid[i]]
SanitizedByExample(nodeid) ==
    [i \in DOMAIN nodeid |->
        IF nodeid[i] = "::" THEN "__"
        ELSE IF nodeid[i] \in {"/", "\\"} THEN "_" ELSE nodeid[i]]
ClaimedPaths(nodeid) ==
    { <<"screenshots", "/">> \o SanitizedByRule(nodeid) \o <<".png">>,
      <<"screenshots", "/">> \o SanitizedByExample(nodeid) \o <<".png">> }

\* C4: the path recorded for a test, and written to disk, is
\* screenshots/<node id with "::", "/" and "\" replaced>.png.
C4_PathIsSanitizedNodeId ==
    /\ \A e \in FAILED_SCREENSHOTS : e.v \in ClaimedPaths(e.k)
    /\ \A f \in pngs : f.k \in ClaimedPaths(f.v)


\* The placeholder of a failed test without screenshot property.
Placeholder == "[No screenshot captured]"

\* The story has, for the node id, its header, its failure message and
\* then the placeholder.
StoryShowsPlaceholder(story, nodeid, msg) ==
    \E k \in DOMAIN story :
        /\ k + 4 <= Len(story)
        /\ story[k] = [el |-> "Paragraph",
                       text |-> <<"<b>">> \o SafeNode(nodeid) \o <<"</b>:">>]
        /\ story[k + 2] = [el |-> "Paragraph", text |-> <<msg>>]
        /\ story[k + 4] = [el |-> "Paragraph", text |-> <<Placeholder>>]

\* The text report has the bullet of the node id with its failure message.
TextShowsMessage(lines, nodeid, msg) ==
    \E k \in DOMAIN lines :
        lines[k] = [text |-> <<"- ", BQ>> \o nodeid \o <<BQ, ": ", msg>>]

\* The placeholder occurs somewhere in the text report.
TextHasPlaceholder(lines) ==
    \E k \in DOMAIN lines : \E j \in DOMAIN lines[k].text :
        lines[k].text[j] = Placeholder

\* The test at position i of the run had its capture raise, its record is
\* a failed one without a screenshot property of its own, and both reports
\* of the run have been written.
RaisedAndReported(i) ==
    /\ pc = "idle"
    /\ i \in DOMAIN results
    /\ results[i].cap = "raises"
    /\ RecordOutcome(results[i]) = "failed"
    /\ ~results[i].props
    /\ TEST_REPORT_md.kind = "text"
    /\ TEST_REPORT_pdf.kind = "pdf"

\* C5 (as stated): when save_screenshot raises for a failing test, the test
\* gets no entry in FAILED_SCREENSHOTS, its record in report.json is the one
\* the plugin built (no screenshot pair added), and both reports, the text
\* report too, show its failure message followed by the placeholder.
C5_BothReportsShowPlaceholder ==
    \A i \in DOMAIN AllReports :
        AllReports[i].cap = "raises"
        => /\ AllReports[i].nodeid \notin Keys(FAILED_SCREENSHOTS)
           /\ (persisted => report_json.data.tests[i] = TestRecord(results[i]))
           /\ (RaisedAndReported(i)
               => /\ StoryShowsPlaceholder(TEST_REPORT_pdf.story,
                                           results[i].nodeid, CrashMessage)
                  /\ TextShowsMessage(TEST_REPORT_md.lines,
                                      results[i].nodeid, CrashMessage)
                  /\ TextHasPlaceholder(TEST_REPORT_md.lines))

\* C5 (amended): when save_screenshot raises for a failing test, the test
\* gets no entry in FAILED_SCREENSHOTS and its record in report.json is the
\* one the plugin built (no screenshot pair added); when that record is a
\* failed one without a screenshot property of its own, the illustrated
\* document shows its failure message followed by the placeholder, and the
\* text report shows its failure message and no placeholder.
C5_OnlyIllustratedShowsPlaceholder ==
    \A i \in DOMAIN AllReports :
        AllReports[i].cap = "raises"
        => /\ AllReports[i].nodeid \notin Keys(FAILED_SCREENSHOTS)
           /\ (persisted => report_json.data.tests[i] = TestRecord(results[i]))
           /\ (RaisedAndReported(i)
               => /\ StoryShowsPlaceholder(TEST_REPORT_pdf.story,
                                           results[i].nodeid, CrashMessage)
                  /\ TextShowsMessage(TEST_REPORT_md.lines,
                                      results[i].nodeid, CrashMessage)
                  /\ ~TextHasPlaceholder(TEST_REPORT_md.lines))

\* C5: a run is over in which the capture of a failed test raised, and both
\* reports have been written from its document.
C5_Witness == \E i \in DOMAIN results : RaisedAndReported(i)


\* The user_properties pairs of a record (none when it has no such key).
Properties(t) ==
    IF "user_properties" \in DOMAIN t THEN t.user_properties.items ELSE <<>>

\* The record t is the record built with the index's screenshot pair
\* appended to its user_properties, and nothing else changed.
IsInjected(t, built, path) ==
    /\ DOMAIN t = DOMAIN built \cup {"user_properties"}
    /\ \A key \in DOMAIN built \ {"user_properties"} : t[key] = built[key]
    /\ ~t.user_properties.null
    /\ t.user_properties.items = Append(Properties(built), Pair("screenshot", path))

\* C6: in the report.json a run has written, the record of a test is the
\* record the plugin built with ["screenshot", FAILED_SCREENSHOTS[nodeid]]
\* appended to its user_properties when its node id is a key of
\* FAILED_SCREENSHOTS, and is the record the plugin built, unchanged, when
\* it is not; and the step that writes report.json leaves
\* FAILED_SCREENSHOTS as it was.
C6_InjectIffIndexed ==
    /\ [](persisted =>
            /\ Len(report_json.data.tests) = Len(results)
            /\ \A i \in DOMAIN results :
                  IF results[i].nodeid \in Keys(FAILED_SCREENSHOTS)
                  THEN IsInjected(report_json.data.tests[i], TestRecord(results[i]),
                                  Lookup(FAILED_SCREENSHOTS, results[i].nodeid))
                  ELSE report_json.data.tests[i] = TestRecord(results[i]))
    /\ [][pc = "finalize" => FAILED_SCREENSHOTS' = FAILED_SCREENSHOTS]_vars

\* C6: a run has written a report.json with a record whose node id is in
\* FAILED_SCREENSHOTS and one, with user properties of its own, whose node
\* id is not.
C6_Witness ==
    /\ persisted
    /\ \E i, j \in DOMAIN results :
          /\ results[i].nodeid \in Keys(FAILED_SCREENSHOTS)
          /\ results[i].props
          /\ results[j].nodeid \notin Keys(FAILED_SCREENSHOTS)
          /\ results[j].props

\* The document holds, for every entry of the index, the screenshot pair of
\* that entry on the record of its node id.
HoldsEveryEntry(file, index) ==
    /\ file.kind = "json"
    /\ "tests" \in DOMAIN file.data
    /\ \A e \in index :
          \E i \in DOMAIN file.data.tests :
              /\ file.data.tests[i].nodeid = e.k
              /\ \E j \in DOMAIN Properties(file.data.tests[i]) :
                    Properties(file.data.tests[i])[j] = Pair("screenshot", e.v)

\* C7: pytest_sessionfinish starts report_generator only in a run that has
\* written its report.json (after pytest_json_modifyreport ran on it), so
\* the document read holds every entry the Observer recorded in that run.
C7_ReportingAfterFinalizing ==
    /\ (pc = "sessionfinish" => \A i \in DOMAIN items : i < idx)
    /\ (synth.by = "sessionfinish" /\ pc = "idle")
       => /\ synth.fresh
          /\ HoldsEveryEntry(report_json, FAILED_SCREENSHOTS)

\* A step that starts a pytest process.
StartStep == pc = "idle" /\ pc' = "running"

\* C8: FAILED_SCREENSHOTS is empty when a run starts, whatever an earlier
\* run recorded; it changes only in the hook's report of a failed call phase
\* of a test with a WebDriver; and it does not change from the moment
\* report.json is due to be written until the next run starts.
C8_IndexRunScoped ==
    [][ /\ StartStep => FAILED_SCREENSHOTS' = {}
        /\ (FAILED_SCREENSHOTS' # FAILED_SCREENSHOTS /\ ~StartStep)
           => /\ pc = "running" /\ when = "call"
              /\ cur'.call = "failed" /\ cur'.drv
        /\ (pc \in {"finalize", "sessionfinish"})
           => FAILED_SCREENSHOTS' = FAILED_SCREENSHOTS ]_vars

\* C8: a second run is under way with an empty index, in a directory where
\* the first run left the screenshot it recorded.
C8_Witness ==
    /\ runNo = 2
    /\ pc = "running"
    /\ FAILED_SCREENSHOTS = {}
    /\ pngs # {}

\* A step of pytest_sessionfinish, and a step of report_generator.py run by
\* hand.
SessionFinishStep == pc = "sessionfinish" /\ pc' = "idle"
StandaloneStep ==
    pc = "idle" /\ pc' = "idle" /\ report_json' = report_json /\ pngs' = pngs

\* C9: with report.json absent or unparseable, pytest_sessionfinish and
\* report_generator.py leave TEST_REPORT.md, TEST_REPORT.pdf and
\* TEST_REPORT_ERROR.txt as they were, print a diagnostic and end without
\* an exception.
C9_NoDocumentNoReport ==
    [][ ((SessionFinishStep \/ StandaloneStep) /\ report_json.kind # "json")
        => /\ TEST_REPORT_md' = TEST_REPORT_md
           /\ TEST_REPORT_pdf' = TEST_REPORT_pdf
           /\ TEST_REPORT_ERROR' = TEST_REPORT_ERROR
           /\ ~raised'
           /\ diag' = IF report_json.kind # "absent" THEN "ERROR reading report.json"
                      ELSE IF SessionFinishStep
                      THEN "report.json not found; skipping report generation."
                      ELSE "report.json not found, skipping PDF generation" ]_vars

\* C9: report_generator has just refused an unparseable report.json, in a
\* directory that holds reports written from an earlier document.
C9_Witness ==
    /\ report_json.kind = "garbage"
    /\ diag = "ERROR reading report.json"
    /\ TEST_REPORT_md.kind = "text"
    /\ TEST_REPORT_pdf.kind = "pdf"

\* C10: on any parsed document a run of report_generator writes the text
\* report: the six header lines with the document's counts and one line per
\* failed record.
C10_TextReportTotal ==
    [][ (((SessionFinishStep /\ report_json.kind # "absent") \/ StandaloneStep)
         /\ report_json.kind = "json")
        => /\ TEST_REPORT_md'.kind = "text"
           /\ Len(TEST_REPORT_md'.lines) = 6 + Len(FailedTests(report_json.data))
           /\ TEST_REPORT_md'.lines[2] =
                  [text |-> <<"- **Total tests:** ">>, num |-> Total(report_json.data)] ]_vars


\* The positions of the records with outcome failed in the document, and
\* the rank of such a position among them.
FailedPositions(tests) ==
    {i \in DOMAIN tests : "outcome" \in DOMAIN tests[i] /\ tests[i].outcome = "failed"}
Rank(positions, i) == Cardinality({j \in positions : j <= i})

\* The bullet line of a node id and its message.
Bullet(nodeid, msg) == [text |-> <<"- ", BQ>> \o nodeid \o <<BQ, ": ", msg>>]

\* The header block: title, the three counts, an empty line, the heading.
IsHeader(lines, total, passed, failed) ==
    /\ Len(lines) >= 6
    /\ lines[1] = [text |-> <<"# Test Report Summary">>]
    /\ lines[2] = [text |-> <<"- **Total tests:** ">>, num |-> total]
    /\ lines[3] = [text |-> <<"- **Passed:** ">>, num |-> passed]
    /\ lines[4] = [text |-> <<"- **Failed:** ">>, num |-> failed]
    /\ lines[5] = [text |-> <<>>]
    /\ lines[6] = [text |-> <<"## Failed Tests Details">>]

\* The text report of a finished run has been written from its document.
TextReportWritten ==
    pc = "idle" /\ persisted /\ TEST_REPORT_md.kind = "text"

\* C11: the text report written from the document of a run is the header
\* block with the document's total, passed and failed counts, followed by
\* the bullet of node id and message of every record with outcome failed,
\* in the order of the document, and by nothing else.
C11_TextReportContent ==
    TextReportWritten =>
        LET data == report_json.data
            tests == data.tests
            lines == TEST_REPORT_md.lines
            pos == FailedPositions(tests)
        IN /\ IsHeader(lines, data.summary.total,
                       Get(data.summary, "passed", 0), Get(data.summary, "failed", 0))
           /\ Len(lines) = 6 + Cardinality(pos)
           /\ \A i \in pos :
                  lines[6 + Rank(pos, i)] =
                      Bullet(tests[i].nodeid, tests[i].call.crash.message)

\* C11: the text report has been written from a document whose first record
\* is not a failed one and whose second record is.
C11_Witness ==
    /\ TextReportWritten
    /\ Len(report_json.data.tests) = 2
    /\ report_json.data.tests[1].outcome \in {"passed", "error", "skipped"}
    /\ report_json.data.tests[2].outcome = "failed"


\* C12: a run of report_generator on the report.json that its previous run
\* read leaves TEST_REPORT.md as that run left it, whatever has become of
\* the png files, the other reports and FAILED_SCREENSHOTS in between.
C12_TextReportIdempotent ==
    [][ ((SessionFinishStep \/ StandaloneStep)
         /\ synth.by \in {"sessionfinish", "standalone"}
         /\ synth.doc = report_json)
        => TEST_REPORT_md' = TEST_REPORT_md ]_vars

\* C12: report_generator has run twice on the same document, a png file of
\* the document deleted between the two runs, and the text report is there.
C12_Witness ==
    /\ synth.by = "standalone"
    /\ synth.doc = report_json
    /\ report_json = StoredFile
    /\ TEST_REPORT_md.kind = "text"
    /\ TEST_REPORT_pdf.kind = "pdf"
    /\ \E k \in DOMAIN TEST_REPORT_pdf.story :
          TEST_REPORT_pdf.story[k] = [el |-> "Paragraph",
                                      text |-> <<"[No screenshot file found]">>]


\* A step of report_generator on a parsed document.
GeneratorStep ==
    (SessionFinishStep \/ StandaloneStep) /\ report_json.kind = "json"

\* The value of the first pair named "screenshot" of a record (<<>> when
\* it has none).
OwnScreenshot(t) ==
    LET pairs == Properties(t)
        named == {j \in DOMAIN pairs : pairs[j].name = "screenshot"}
    IN IF named = {} THEN <<>>
       ELSE pairs[CHOOSE j \in named : \A m \in named : j <= m].value

\* Every failed record of the document has a node id and a list, possibly
\* empty, of user properties.
Renderable(data) ==
    \A i \in FailedPositions(Get(data, "tests", <<>>)) :
        /\ "nodeid" \in DOMAIN data.tests[i]
        /\ "user_properties" \in DOMAIN data.tests[i]
           => ~data.tests[i].user_properties.null

\* Element j (1..6) of the block of the k-th of n failed tests: the blocks
\* are the last 6 * n elements of the story.
BlockElement(story, n, k, j) == story[Len(story) - 6 * (n - k + 1) + j]

\* The header paragraph of a failed test.
BlockHeader(nodeid) ==
    [el |-> "Paragraph", text |-> <<"<b>">> \o SafeNode(nodeid) \o <<"</b>:">>]

\* The record names a screenshot that is not on disk.
ArtifactMissing(t, files) ==
    OwnScreenshot(t) # <<>> /\ OwnScreenshot(t) \notin Keys(files)

\* C13: when the screenshot property of a failed record names a file that
\* is not on disk, report_generator ends without an exception; in the
\* TEST_REPORT.pdf it builds, the block of that test has the line
\* "[No screenshot file found]" where its image would be, and every failed
\* test has its block.
C13_MissingArtifactPlaceholder ==
    [][ (GeneratorStep /\ Renderable(report_json.data))
        => LET tests == Get(report_json.data, "tests", <<>>)
               pos == FailedPositions(tests)
               n == Cardinality(pos)
               story == TEST_REPORT_pdf'.story
           IN (\E i \in pos : ArtifactMissing(tests[i], pngs))
              => /\ ~raised'
                 /\ diag' = "TEST_REPORT.pdf generated"
                    => /\ TEST_REPORT_pdf'.kind = "pdf"
                       /\ Len(story) >= 6 * n
                       /\ \A i \in pos :
                             /\ BlockElement(story, n, Rank(pos, i), 1)
                                    = BlockHeader(tests[i].nodeid)
                             /\ ArtifactMissing(tests[i], pngs)
                                => BlockElement(story, n, Rank(pos, i), 5)
                                      = [el |-> "Paragraph",
                                         text |-> <<"[No screenshot file found]">>] ]_vars

\* C13: TEST_REPORT.pdf has been built from a document of two failed tests
\* with the screenshot of the first deleted and that of the second on disk:
\* the first block has the line, the second its image.
C13_Witness ==
    /\ report_json = StoredFile
    /\ synth.doc = StoredFile
    /\ diag = "TEST_REPORT.pdf generated"
    /\ Keys(pngs) = {RelPngPath(N_case)}
    /\ BlockElement(TEST_REPORT_pdf.story, 2, 1, 5)
          = [el |-> "Paragraph", text |-> <<"[No screenshot file found]">>]
    /\ BlockElement(TEST_REPORT_pdf.story, 2, 2, 5).el = "Image"


\* The step is a run of main() in the surroundings env.
RunsIn(env) ==
    LET out == main(report_json, TEST_REPORT_md, TEST_REPORT_pdf,
                    TEST_REPORT_ERROR, pngs, env)
    IN /\ TEST_REPORT_md' = out.md
       /\ TEST_REPORT_pdf' = out.pdf
       /\ TEST_REPORT_ERROR' = out.err
       /\ diag' = out.diag
       /\ raised' = out.raised

\* The line left where an image could not be embedded.
ErrorNote == [el |-> "Paragraph",
              text |-> <<"[Unable to insert screenshot: ", "img_err", "]">>]

AssemblyBegun(data) ==
    \A i \in FailedPositions(Get(data, "tests", <<>>)) : "nodeid" \in DOMAIN data.tests[i]

\* C15: a run of report_generator that gets as far as assembling
\* TEST_REPORT.pdf from a parsed document ends without an exception, having
\* built TEST_REPORT.pdf or, when assembling it failed at any step, having
\* written TEST_REPORT_ERROR.txt.
C15_PdfOrFallback ==
    [][ (GeneratorStep /\ AssemblyBegun(report_json.data))
        => /\ ~raised'
           /\ \/ diag' = "TEST_REPORT.pdf generated" /\ TEST_REPORT_pdf'.kind = "pdf"
              \/ diag' = "ERROR generating TEST_REPORT.pdf"
                 /\ TEST_REPORT_ERROR'.kind = "text" ]_vars


\* A step of the hook pytest_runtest_makereport on the report of a phase.
HookStep == pc = "running" /\ pc' # "idle"

\* C16: on every report the hook ends without raising into the runner,
\* which goes on with the report as it made it, and the hook changes
\* nothing but FAILED_SCREENSHOTS and the files under screenshots/.
C16_HookOnlyObserves ==
    [][ HookStep
        => /\ pc' # "internalerror"
           /\ UNCHANGED <<report_json, outputs, persisted, synth, runNo, items>> ]_vars


\* C17: every key of FAILED_SCREENSHOTS is the node id of a test of this
\* run whose call phase was reported failed, which had a WebDriver, and
\* whose screenshot was written; and in the report.json of the run every
\* record that got a screenshot pair from pytest_json_modifyreport is that
\* of a test whose call phase failed.
C17_IndexOnlySuccessfulCaptures ==
    /\ \A e \in FAILED_SCREENSHOTS :
          \E i \in DOMAIN AllReports :
              /\ AllReports[i].nodeid = e.k
              /\ AllReports[i].call = "failed"
              /\ AllReports[i].drv
              /\ AllReports[i].cap = "saved"
    /\ persisted
       => \A i \in DOMAIN results :
              report_json.data.tests[i] # TestRecord(results[i])
              => results[i].call = "failed"


\* The node id and the message of a bullet line of the text report.
BulletNodeid(line) == SubSeq(line.text, 3, Len(line.text) - 3)
BulletMessage(line) == line.text[Len(line.text)]

\* The three summary paragraphs of the story stand before the heading of
\* the failed tests, 5 to 3 elements before the first block.
SummaryParagraph(story, n, j) == story[Len(story) - 6 * n - 6 + j]

\* C18: when a run of report_generator writes TEST_REPORT.md and builds
\* TEST_REPORT.pdf, the two describe the same failed tests: the story has
\* one block per bullet line of the text report, in the same order, with
\* the node id and the message (or "<no message>") of that line, and its
\* total, passed and failed values are those of the text report.
C18_SameFailedTests ==
    [][ (GeneratorStep /\ TEST_REPORT_md'.kind = "text"
         /\ diag' = "TEST_REPORT.pdf generated")
        => LET lines == TEST_REPORT_md'.lines
               story == TEST_REPORT_pdf'.story
               n == Len(lines) - 6
           IN /\ TEST_REPORT_pdf'.kind = "pdf"
              /\ Len(story) \in {6 * n + 8, 6 * n + 10}
              /\ \A j \in 1..3 :
                    /\ SummaryParagraph(story, n, j).el = "Paragraph"
                    /\ SummaryParagraph(story, n, j).num = lines[1 + j].num
              /\ SummaryParagraph(story, n, 1).text = <<"<b>Total tests:</b> ">>
              /\ SummaryParagraph(story, n, 2).text = <<"<b>Passed:</b> ">>
              /\ SummaryParagraph(story, n, 3).text = <<"<b>Failed:</b> ">>
              /\ \A k \in 1..n :
                    /\ BlockElement(story, n, k, 1)
                           = BlockHeader(BulletNodeid(lines[6 + k]))
                    /\ BlockElement(story, n, k, 3)
                           = [el |-> "Paragraph",
                              text |-> <<BulletMessage(lines[6 + k])>>] ]_vars

\* C18: both reports have been written from a document with a failed record
\* that has no message, and both have "<no message>" for it.
C18_Witness ==
    /\ report_json = JsonFile(NoMessage)
    /\ synth.doc = report_json
    /\ diag = "TEST_REPORT.pdf generated"
    /\ TEST_REPORT_md.kind = "text"
    /\ Len(TEST_REPORT_md.lines) = 7
    /\ BulletMessage(TEST_REPORT_md.lines[7]) = "<no message>"
    /\ BlockElement(TEST_REPORT_pdf.story, 1, 1, 3)
          = [el |-> "Paragraph", text |-> <<"<no message>">>]


\* What C19 says of the record at position i of the document, whose node id
\* is a key of FAILED_SCREENSHOTS; exact tells whether the image must be
\* the screenshot taken of that very test.
InjectedLastFirstWins(i, exact) ==
    LET tests == report_json.data.tests
        pos == FailedPositions(tests)
        story == TEST_REPORT_pdf.story
        pairs == Properties(tests[i])
        injected == Pair("screenshot", Lookup(FAILED_SCREENSHOTS, results[i].nodeid))
    IN /\ pairs = Append(Properties(TestRecord(results[i])), injected)
       /\ i \in pos
          => LET element == BlockElement(story, Cardinality(pos), Rank(pos, i), 5)
             IN IF results[i].props
                THEN element.el = "Image" => element.path = OwnPng
                ELSE element.el = "Image"
                     => /\ element.path = injected.value
                        /\ exact => element.shows = results[i].nodeid

\* Both reports of a finished run have been written from its document.
RunReported ==
    pc = "idle" /\ persisted /\ diag = "TEST_REPORT.pdf generated"

\* C19: in the document of a run the pair of FAILED_SCREENSHOTS is the last
\* of a record's user_properties, after those the record had; the image in
\* the block of a failed record in TEST_REPORT.pdf is that of its first
\* "screenshot" pair: for a record without a screenshot property of its own
\* it is the screenshot the hook took of that test, and for a record with
\* one it is the record's own and not the one the hook took.
C19_FirstScreenshotWins ==
    RunReported
    => \A i \in DOMAIN results :
           results[i].nodeid \in Keys(FAILED_SCREENSHOTS)
           => InjectedLastFirstWins(i, TRUE)

====
